---- MODULE Spec2Model ----
(***************************************************************************)
(* Model of vault_ops: the VaultOpsTool request dispatcher (CRUD, ask,     *)
(* maintenance), the lazily built index pair .index/faiss_index.bin and    *)
(* .index/chunks.json, and the maintenance passes of run_maintenance.      *)
(*                                                                         *)
(* Every request runs to completion before the next is accepted, so one    *)
(* action is one call of VaultOpsTool._run.  A Python exception ends the   *)
(* handler where it is raised: the effects made before it stay on disk.    *)
(*                                                                         *)
(* Three specifications: Spec (the requests of one instance, one action    *)
(* per request), SpecMaint (maintenance runs alone, over a vault with a    *)
(* subdirectory) and SpecConc (two instances over one vault root, one      *)
(* action per file access, with a process that can stop between two).      *)
(***************************************************************************)
EXTENDS Integers, Sequences, FiniteSets, TLC

VARIABLES
    fs,        \* note files: absolute path -> file (absent, or its text)
    atts,      \* attachment files (.png/.jpg/.pdf) present under the vault
    indexDir,  \* whether the directory VAULT_PATH/.index exists
    indexFile, \* INDEX_FILE: absent, or the sequence of stored vectors
    metaFile,  \* META_FILE: absent, or the sequence of chunk records
    vstore,    \* ./vector_store/faiss_index.bin in the working directory
    last,      \* the request _run handled last
    result,    \* what _run gave back: a text, or the exception it let out
    askPos,    \* positions the last ask used to subscript the chunk list
    steps,     \* requests handled so far
    procs      \* two tool instances over the vault: position and locals of each

vars ==
    <<fs, atts, indexDir, indexFile, metaFile, vstore, last, result, askPos,
      steps, procs>>

----------------------------------------------------------------------------
(* Bounds *)

\* most vectors held by ./vector_store/faiss_index.bin
MaxGlobal == 1
\* requests handled in one run (chunks.json can grow with every update, so
\* a run has to end)
MaxOps == 2

----------------------------------------------------------------------------
(* Files *)

Absent == [exists |-> FALSE]
FileOf(x) == [exists |-> TRUE, data |-> x]

----------------------------------------------------------------------------
(* Paths.  A path is the sequence of its components. *)

VAULT_PATH == <<"vault">>
OtherDir == <<"other">>

\* vault/ln is a symbolic link to a directory outside the vault
Symlinks == (<<"vault", "ln">> :> OtherDir)

NoteA == <<"vault", "a.md">>
NoteB == <<"vault", "b.md">>
IndexMd == <<"vault", "Index.md">>
\* a note in a subdirectory that has the name of the generated index page
SubIndexMd == <<"vault", "sub", "Index.md">>
OutsideMd == <<"other", "x.md">>

\* the *.md files the model knows, inside the vault and outside it
VaultNotes == {NoteA, NoteB, IndexMd, SubIndexMd}
AbsFiles == VaultNotes \cup {OutsideMd}

\* request paths, relative to the vault root
RelA == <<"a.md">>
RelB == <<"b.md">>
RelDotDot == <<"..", "other", "x.md">>
RelLink == <<"ln", "x.md">>
RelAbsolute == <<"/", "other", "x.md">>
InsideRel == {RelA, RelB}
EscapingRel == {RelDotDot, RelLink, RelAbsolute}
RelPaths == InsideRel \cup EscapingRel

Parent(p) == IF p = <<>> THEN <<>> ELSE SubSeq(p, 1, Len(p) - 1)

\* (VAULT_PATH / rel).resolve(): an absolute rel (first component "/")
\* replaces the vault root, ".." steps to the parent, a symbolic link is
\* followed
RECURSIVE ResolveFrom(_, _)
ResolveFrom(cur, rest) ==
    IF rest = <<>> THEN cur
    ELSE LET c == Head(rest)
             nxt == IF c = "/" THEN <<>>
                    ELSE IF c = ".." THEN Parent(cur) ELSE Append(cur, c)
             tgt == IF nxt \in DOMAIN Symlinks THEN Symlinks[nxt] ELSE nxt
         IN  ResolveFrom(tgt, Tail(rest))

IsRelativeTo(p, base) ==
    /\ Len(p) >= Len(base)
    /\ SubSeq(p, 1, Len(base)) = base

\* _abs: the resolved path, or ValueError when it leaves the vault
AbsNoGuard(rel) ==
    [exc |-> "none", path |-> ResolveFrom(VAULT_PATH, rel)]

Abs(rel) ==
    LET p == ResolveFrom(VAULT_PATH, rel)
    IN  IF ~IsRelativeTo(p, VAULT_PATH)
        THEN [exc |-> "ValueError", path |-> p]
        ELSE [exc |-> "none", path |-> p]

----------------------------------------------------------------------------
(* Texts.  A text is the sequence of the segments that "\n\n" separates    *)
(* (so txt.split("\n\n") has one element per segment); a segment is the    *)
(* sequence of its tokens.  The empty text "" is the one empty segment.    *)

TxEmpty == << <<>> >>
TxHi == << <<"hi">> >>
\* two paragraphs: a wiki link to b and an embedded image, then a backlinks
\* section as an earlier tool left it ("\n## Backlinks\n\n- [[a]]\n")
TxTwo == << <<"- [[b]]\n", "![](img.png)", "\n## Backlinks">>, <<"- [[a]]\n">> >>
TxOutside == << <<"secret">> >>

\* the text argument of a create or update request
Texts == {TxEmpty, TxHi, TxTwo}

\* bytes of a token in UTF-8
TokSize(tok) ==
    CASE tok = "hi" -> 2
      [] tok = " " -> 1
      [] tok = "![](img.png)" -> 12
      [] tok = "\n## Backlinks" -> 13
      [] tok = "secret" -> 6
      [] tok = "# Index" -> 7
      [] tok = "- [[a]]\n" -> 8
      [] tok = "- [[b]]\n" -> 8
      [] tok = "- [[Index]]\n" -> 12
      [] OTHER -> 4

RECURSIVE SumSeq(_)
SumSeq(s) == IF s = <<>> THEN 0 ELSE Head(s) + SumSeq(Tail(s))

SegSize(seg) == SumSeq([i \in 1..Len(seg) |-> TokSize(seg[i])])

\* st_size of a file holding txt: the segments and the "\n\n" between them
TextSize(txt) ==
    SumSeq([i \in 1..Len(txt) |-> SegSize(txt[i])]) + 2 * (Len(txt) - 1)

\* para.strip() is empty
Blank(seg) == \A i \in 1..Len(seg) : seg[i] = " "

----------------------------------------------------------------------------
(* embedder.py *)

\* embed_texts: one vector per text, in order; a vector is named by the
\* text it embeds
EmbedTexts(texts) == [i \in 1..Len(texts) |-> [emb |-> texts[i]]]

\* load_faiss(d).  The argument is a dimension ("dim"), a Path ("path":
\* _index_file and _ask pass self.INDEX_FILE) or None; vs is the file
\* ./vector_store/faiss_index.bin.  faiss.IndexFlatIP accepts an integer
\* only, so a Path argument ends in TypeError.
LoadFaiss(arg, vs) ==
    IF vs.exists THEN [exc |-> "none", index |-> vs.data]
    ELSE IF arg = "None" THEN [exc |-> "ValueError", index |-> <<>>]
    ELSE IF arg = "dim" THEN [exc |-> "none", index |-> <<>>]
    ELSE [exc |-> "TypeError", index |-> <<>>]

----------------------------------------------------------------------------
(* The disk as one record, threaded through the steps of a handler.  exc   *)
(* is "none" until a step raises; later steps are then skipped.            *)

Disk ==
    [fs |-> fs, atts |-> atts, dir |-> indexDir, idx |-> indexFile,
     meta |-> metaFile, exc |-> "none"]

Raise(d, e) == [d EXCEPT !.exc = e]

\* save_faiss: faiss.write_index cannot open a file in a missing directory
SaveFaiss(d, index) ==
    IF ~d.dir THEN Raise(d, "RuntimeError")
    ELSE [d EXCEPT !.idx = FileOf(index)]

\* META_FILE.write_text(json.dumps(chunks))
WriteMeta(d, chunks) ==
    IF ~d.dir THEN Raise(d, "FileNotFoundError")
    ELSE [d EXCEPT !.meta = FileOf(chunks)]

\* _write: open(path, "w") and write
WriteFile(d, path, data) == [d EXCEPT !.fs[path] = FileOf(data)]

----------------------------------------------------------------------------
(* Index manager: vault_ops_tool.py, _ensure_index .. _remove_from_index *)

\* the order in which VAULT_PATH.rglob("*.md") yields the notes (rglob does
\* not descend into the symbolic link vault/ln)
NoteOrder == <<IndexMd, NoteA, NoteB, SubIndexMd>>

\* the chunk records of one note: a record per segment with para.strip()
ChunksOf(path, txt) ==
    SelectSeq([i \in 1..Len(txt) |-> [file |-> path, para |-> <<txt[i]>>]],
              LAMBDA r : ~Blank(r.para[1]))

RECURSIVE ChunksFrom(_, _)
ChunksFrom(f, order) ==
    IF order = <<>> THEN <<>>
    ELSE (IF f[Head(order)].exists
          THEN ChunksOf(Head(order), f[Head(order)].data)
          ELSE <<>>) \o ChunksFrom(f, Tail(order))

\* the chunks list _bulk_index_vault collects over the whole vault
VaultChunks(f) == ChunksFrom(f, NoteOrder)

Paras(chunks) == [i \in 1..Len(chunks) |-> chunks[i].para]

\* _bulk_index_vault.  er: whether vecs.shape[1] raises on the embedding of
\* an empty list (the shape encode([]) returns is the library's choice).
BulkIndexVault(d, vs, er) ==
    LET chunks == VaultChunks(d.fs)
        vecs == EmbedTexts(Paras(chunks))
        ld == LoadFaiss("dim", vs)
    IN  IF chunks = <<>> /\ er THEN Raise(d, "IndexError")
        ELSE IF ld.exc # "none" THEN Raise(d, ld.exc)
        ELSE LET d1 == SaveFaiss(d, ld.index \o vecs)
             IN  IF d1.exc # "none" THEN d1 ELSE WriteMeta(d1, chunks)

\* _ensure_index: mkdir .index, and a bulk index when INDEX_FILE is missing
EnsureIndex(d, vs, er) ==
    LET d1 == [d EXCEPT !.dir = TRUE]
    IN  IF ~d1.idx.exists THEN BulkIndexVault(d1, vs, er) ELSE d1

\* _remove_from_index: unlink both artifacts, then a bulk index
RemoveFromIndex(d, vs, er) ==
    BulkIndexVault([d EXCEPT !.meta = Absent, !.idx = Absent], vs, er)

\* _index_file: the pair is loaded before the removal, and one record that
\* holds the whole text of the file is appended to the loaded list
IndexFile(d, path, overwrite, vs, er) ==
    LET d1 == EnsureIndex(d, vs, er)
        ld == LoadFaiss("path", vs)
    IN  IF d1.exc # "none" THEN d1
        ELSE IF ld.exc # "none" THEN Raise(d1, ld.exc)
        ELSE IF ~d1.meta.exists THEN Raise(d1, "FileNotFoundError")
        ELSE LET chunks == d1.meta.data
                 d2 == IF overwrite THEN RemoveFromIndex(d1, vs, er) ELSE d1
             IN  IF d2.exc # "none" THEN d2
                 ELSE LET txt == d2.fs[path].data
                          vecs == EmbedTexts(<<txt>>)
                          d3 == SaveFaiss(d2, ld.index \o vecs)
                      IN  WriteMeta(d3,
                                Append(chunks, [file |-> path, para |-> txt]))

----------------------------------------------------------------------------
(* Vault store: _create, _read, _update, _delete.  Each gives the disk it  *)
(* leaves and the text it returns (msg, unused when d.exc is set).         *)

Out(d, msg) == [d |-> d, msg |-> msg]

CreateNoExistsCheck(d, rel, content, vs, er) ==
    LET a == Abs(rel)
    IN  IF a.exc # "none" THEN Out(Raise(d, a.exc), "")
        ELSE Out(IndexFile(WriteFile(d, a.path, content), a.path, FALSE, vs, er),
                 "Created")

Create(d, rel, content, vs, er) ==
    LET a == Abs(rel)
    IN  IF a.exc # "none" THEN Out(Raise(d, a.exc), "")
        ELSE IF d.fs[a.path].exists THEN Out(d, "already exists")
        ELSE Out(IndexFile(WriteFile(d, a.path, content), a.path, FALSE, vs, er),
                 "Created")

\* _run's "read" case: self._read(self._abs(path)); open() on a missing
\* file raises FileNotFoundError; msg is the text read
Read(d, rel) ==
    LET a == Abs(rel)
    IN  IF a.exc # "none" THEN Out(Raise(d, a.exc), <<>>)
        ELSE IF ~d.fs[a.path].exists THEN Out(Raise(d, "FileNotFoundError"), <<>>)
        ELSE Out(d, d.fs[a.path].data)

Update(d, rel, content, vs, er) ==
    LET a == Abs(rel)
    IN  IF a.exc # "none" THEN Out(Raise(d, a.exc), "")
        ELSE IF ~d.fs[a.path].exists THEN Out(d, "not found")
        ELSE Out(IndexFile(WriteFile(d, a.path, content), a.path, TRUE, vs, er),
                 "Updated")

Delete(d, rel, vs, er) ==
    LET a == Abs(rel)
    IN  IF a.exc # "none" THEN Out(Raise(d, a.exc), "")
        ELSE IF ~d.fs[a.path].exists THEN Out(d, "does not exist")
        ELSE Out(RemoveFromIndex([d EXCEPT !.fs[a.path] = Absent], vs, er),
                 "Deleted")

----------------------------------------------------------------------------
(* Retrieval: _ask *)

\* the default k of _ask
K == 5

\* the rankings a search over n stored vectors can produce: the stored
\* positions 0..n-1 in some order of similarity
Ranks(n) == {r \in [1..n -> 0..(n - 1)] : \A i, j \in 1..n : r[i] = r[j] => i = j}

\* index.search(qvec, k): the min(k, ntotal) best positions, then -1
Search(index, k, rank) ==
    [j \in 1..k |-> IF j <= Len(index) THEN rank[j] ELSE -1]

\* chunks[i] is defined for -len <= i < len (a negative i counts from the end)
Subscriptable(i, n) == -n <= i /\ i < n

\* the positions the join in _ask subscripts chunks with: all of I[0], or
\* those up to the first that raises IndexError
Used(I, n) ==
    LET bad == {j \in 1..Len(I) : ~Subscriptable(I[j], n)}
    IN  IF bad = {} THEN I
        ELSE SubSeq(I, 1, CHOOSE j \in bad : \A m \in bad : j <= m)

Ask(d, vs, er, rank) ==
    LET d1 == EnsureIndex(d, vs, er)
        ld == LoadFaiss("path", vs)
    IN  IF d1.exc # "none" THEN [d |-> d1, msg |-> "", pos |-> <<>>]
        ELSE IF ld.exc # "none"
        THEN [d |-> Raise(d1, ld.exc), msg |-> "", pos |-> <<>>]
        ELSE IF ~d1.meta.exists
        THEN [d |-> Raise(d1, "FileNotFoundError"), msg |-> "", pos |-> <<>>]
        ELSE LET chunks == d1.meta.data
                 I == Search(ld.index, K, rank)
                 used == Used(I, Len(chunks))
             IN  IF \E j \in 1..K : ~Subscriptable(I[j], Len(chunks))
                 THEN [d |-> Raise(d1, "IndexError"), msg |-> "", pos |-> used]
                 ELSE [d |-> d1, msg |-> "answer", pos |-> used]

----------------------------------------------------------------------------
(* maintenance.py: run_maintenance *)

Attachments == {<<"vault", "img.png">>}
Passes == <<"empty", "dangling", "orphans", "backlinks", "index">>
PassNames == {Passes[i] : i \in 1..Len(Passes)}

\* st_size below which the empty pass removes a note
EmptyThreshold == 5

\* the maintenance_tasks of a request, as the set of its names: none, one
\* pass, or two passes
TaskLists == {t \in SUBSET PassNames : Cardinality(t) <= 1} \cup {{"index", "empty"}}

\* `not tasks or name in tasks`
Selected(tasks, name) == tasks = {} \/ name \in tasks

ExistingNotes(f) == {p \in VaultNotes : f[p].exists}

\* the file names a token's [[target]] links name, ".md" appended
\* (line 12: \[\[([^\]]+)\]\])
TokLinks(tok) ==
    CASE tok = "- [[a]]\n" -> <<"a.md">>
      [] tok = "- [[b]]\n" -> <<"b.md">>
      [] tok = "- [[Index]]\n" -> <<"Index.md">>
      [] OTHER -> <<>>

RECURSIVE Flatten(_)
Flatten(ss) == IF ss = <<>> THEN <<>> ELSE Head(ss) \o Flatten(Tail(ss))

\* pattern.findall over a text, in order, one entry per occurrence
TextLinks(txt) ==
    Flatten([i \in 1..Len(txt) |->
                Flatten([j \in 1..Len(txt[i]) |-> TokLinks(txt[i][j])])])

\* the notes whose unlink or rewrite the operating system may refuse
\* (PermissionError) during one maintenance run
FailingNotes == {NoteB}

\* how many files of a loop over `order` are handled before one in bad
\* raises: all of them when none is in bad
HandledBefore(order, bad) ==
    LET hit == {i \in 1..Len(order) : order[i] \in bad}
    IN  IF hit = {} THEN Len(order)
        ELSE (CHOOSE i \in hit : \A m \in hit : i <= m) - 1

\* lines 6-9: the list of small notes is collected, then each is unlinked;
\* an unlink that raises ends the function with the earlier ones removed
EmptyPass(d, bad) ==
    LET empties == SelectSeq(NoteOrder, LAMBDA p :
                        d.fs[p].exists /\ TextSize(d.fs[p].data) < EmptyThreshold)
        k == HandledBefore(empties, bad)
        gone == {empties[i] : i \in 1..k}
        d1 == [d EXCEPT !.fs = [p \in DOMAIN d.fs |->
                                    IF p \in gone THEN Absent ELSE d.fs[p]]]
    IN  [d |-> IF k < Len(empties) THEN Raise(d1, "PermissionError") ELSE d1,
         n |-> Len(empties)]

\* the count without the exists() test of line 17
DanglingCountAllLinks(f) ==
    LET order == SelectSeq(NoteOrder, LAMBDA p : f[p].exists)
    IN  SumSeq([i \in 1..Len(order) |-> Len(TextLinks(f[order[i]].data))])

\* lines 10-19: the links whose target file does not exist, per occurrence
DanglingCount(f) ==
    LET missing(name) == LET t == Append(VAULT_PATH, name)
                         IN  ~(t \in DOMAIN f /\ f[t].exists)
        cnt(p) == Len(SelectSeq(TextLinks(f[p].data), missing))
        order == SelectSeq(NoteOrder, LAMBDA p : f[p].exists)
    IN  SumSeq([i \in 1..Len(order) |-> cnt(order[i])])

\* the pass as it would be if the pattern compiled and matched nothing
OrphansPassNoScan(d) ==
    [d |-> [d EXCEPT !.atts = {}], n |-> Cardinality(d.atts)]

\* lines 20-27: the pattern of line 23 has an unbalanced parenthesis, so the
\* first re.findall raises re.error; with no note to scan, refs stays empty
\* and every attachment is an orphan
OrphansPass(d) ==
    IF ExistingNotes(d.fs) # {}
    THEN [d |-> Raise(d, "re.error"), n |-> 0]
    ELSE [d |-> [d EXCEPT !.atts = {}], n |-> Cardinality(d.atts)]

\* the targets the pattern of line 12 would find in the token
TokBacklinkTargetsWikiLinks(tok) == TokLinks(tok)

\* line 31: what \\[\\^\\]+\\] finds in a token; it needs a backslash,
\* which no token here holds, a wiki link [[name]] included
TokBacklinkTargets(tok) == <<>>

TextBacklinkTargets(txt) ==
    Flatten([i \in 1..Len(txt) |->
                Flatten([j \in 1..Len(txt[i]) |-> TokBacklinkTargets(txt[i][j])])])

\* lines 29-36: the notes whose text names p as a target that exists
Inbound(f, p) ==
    SelectSeq(SelectSeq(NoteOrder, LAMBDA q : f[q].exists),
              LAMBDA q : \E k \in 1..Len(TextBacklinkTargets(f[q].data)) :
                            Append(VAULT_PATH, TextBacklinkTargets(f[q].data)[k]) = p)

\* line 40: re.sub(r"\n## Backlinks.*", "", content, DOTALL) cuts the text
\* at the first generated header
StripBacklinks(txt) ==
    LET hdr == {i \in 1..Len(txt) :
                    \E j \in 1..Len(txt[i]) : txt[i][j] = "\n## Backlinks"}
    IN  IF hdr = {} THEN txt
        ELSE LET i == CHOOSE h \in hdr : \A m \in hdr : h <= m
                 j == CHOOSE c \in 1..Len(txt[i]) :
                        /\ txt[i][c] = "\n## Backlinks"
                        /\ \A m \in 1..(c - 1) : txt[i][m] # "\n## Backlinks"
             IN  Append(SubSeq(txt, 1, i - 1), SubSeq(txt[i], 1, j - 1))

\* f"- [[{p.stem}]]\n"
StemLine(p) ==
    CASE p = NoteA -> "- [[a]]\n"
      [] p = NoteB -> "- [[b]]\n"
      [] OTHER -> "- [[Index]]\n"

\* lines 41-45: "\n## Backlinks\n\n" and a line per linking note
WithBacklinks(txt, sources) ==
    IF sources = <<>> THEN txt
    ELSE Append([txt EXCEPT ![Len(txt)] = Append(@, "\n## Backlinks")],
                [i \in 1..Len(sources) |-> StemLine(sources[i])])

\* lines 28-47: the inbound links are collected over the vault as it is,
\* then every note is rewritten in turn: stripped, then its section; a
\* write that raises ends the function with the earlier notes rewritten
BacklinksPass(d, bad) ==
    LET notes == SelectSeq(NoteOrder, LAMBDA p : d.fs[p].exists)
        k == HandledBefore(notes, bad)
        done == {notes[i] : i \in 1..k}
        d1 == [d EXCEPT !.fs = [p \in DOMAIN d.fs |->
                IF p \in done
                THEN FileOf(WithBacklinks(StripBacklinks(d.fs[p].data),
                                          Inbound(d.fs, p)))
                ELSE d.fs[p]]]
    IN  IF k < Len(notes) THEN Raise(d1, "PermissionError") ELSE d1

\* lines 48-55: Index.md lists sorted(rglob("*.md")) but the files named
\* Index.md
IndexPass(d) ==
    LET sorted == SelectSeq(<<IndexMd, NoteA, NoteB, SubIndexMd>>,
                            LAMBDA p : d.fs[p].exists /\ p[Len(p)] # "Index.md")
        body == [i \in 1..Len(sorted) |-> StemLine(sorted[i])]
    IN  WriteFile(d, IndexMd, << <<"# Index">>, body >>)

\* one `if not tasks or name in tasks:` block: r is what the pass does to
\* s.d; its line joins the log when the pass returns
PassStep(s, tasks, name, r) ==
    IF s.d.exc # "none" \/ ~Selected(tasks, name) THEN s
    ELSE IF r.d.exc # "none" THEN [d |-> r.d, log |-> s.log]
    ELSE [d |-> r.d, log |-> Append(s.log, [pass |-> name, n |-> r.n])]

\* run_maintenance: the selected passes in the order of the code; an
\* exception leaves the function and the log is lost
RunMaintenance(d, tasks, bad) ==
    LET s0 == [d |-> d, log |-> <<>>]
        s1 == PassStep(s0, tasks, "empty", EmptyPass(s0.d, bad))
        s2 == PassStep(s1, tasks, "dangling",
                       [d |-> s1.d, n |-> DanglingCount(s1.d.fs)])
        s3 == PassStep(s2, tasks, "orphans", OrphansPass(s2.d))
        s4 == PassStep(s3, tasks, "backlinks",
                       [d |-> BacklinksPass(s3.d, bad), n |-> 0])
        s5 == PassStep(s4, tasks, "index", [d |-> IndexPass(s4.d), n |-> 0])
    IN  IF s5.d.exc # "none" THEN [d |-> s5.d, log |-> <<>>] ELSE s5

----------------------------------------------------------------------------
(* The request dispatcher _run, one action per case *)

\* bad: the notes whose unlink or rewrite fails while the request runs;
\* again: the caller repeats the request _run handled just before
Request(op, rel, text, tasks) ==
    [op |-> op, rel |-> rel, text |-> text, tasks |-> tasks, bad |-> {},
     again |-> FALSE]

\* the outcomes of vecs.shape[1] on an empty batch that a request can meet:
\* a rejected path never reaches the index
EmptyBatchRaises(rel) == IF ~IsRelativeTo(ResolveFrom(VAULT_PATH, rel), VAULT_PATH)
                         THEN {FALSE} ELSE BOOLEAN

\* the texts a create or update is tried with: the text of a request whose
\* path is rejected is never looked at
RequestTexts(rel) == IF ~IsRelativeTo(ResolveFrom(VAULT_PATH, rel), VAULT_PATH)
                     THEN {TxHi} ELSE Texts

Commit(d, msg, data, log, req, pos) ==
    /\ steps < MaxOps
    /\ steps' = steps + 1
    /\ fs' = d.fs
    /\ atts' = d.atts
    /\ indexDir' = d.dir
    /\ indexFile' = d.idx
    /\ metaFile' = d.meta
    /\ result' = IF d.exc # "none"
                 THEN [kind |-> "exc", val |-> d.exc, data |-> <<>>, log |-> <<>>]
                 ELSE [kind |-> "text", val |-> msg, data |-> data, log |-> log]
    /\ last' = [req EXCEPT !.again = (req = [last EXCEPT !.again = FALSE])]
    /\ askPos' = pos
    /\ UNCHANGED <<vstore, procs>>

DoCreate ==
    \E rel \in RelPaths :
      \E text \in RequestTexts(rel), er \in EmptyBatchRaises(rel) :
        LET r == Create(Disk, rel, text, vstore, er)
        IN  Commit(r.d, r.msg, <<>>, <<>>, Request("create", rel, text, {}), <<>>)

DoRead ==
    \E rel \in RelPaths :
        LET r == Read(Disk, rel)
        IN  Commit(r.d, "content", r.msg, <<>>, Request("read", rel, <<>>, {}), <<>>)

DoUpdate ==
    \E rel \in RelPaths :
      \E text \in RequestTexts(rel), er \in EmptyBatchRaises(rel) :
        LET r == Update(Disk, rel, text, vstore, er)
        IN  Commit(r.d, r.msg, <<>>, <<>>, Request("update", rel, text, {}), <<>>)

DoDelete ==
    \E rel \in RelPaths :
      \E er \in EmptyBatchRaises(rel) :
        LET r == Delete(Disk, rel, vstore, er)
        IN  Commit(r.d, r.msg, <<>>, <<>>, Request("delete", rel, <<>>, {}), <<>>)

DoAsk ==
    \E rank \in Ranks(IF vstore.exists THEN Len(vstore.data) ELSE 0),
       er \in BOOLEAN :
        LET r == Ask(Disk, vstore, er, rank)
        IN  Commit(r.d, r.msg, <<>>, <<>>, Request("ask", <<>>, <<>>, {}), r.pos)

\* the failures a maintenance run can meet: only a pass that unlinks or
\* rewrites notes can be refused, and only on a note that is there
BadChoices(tasks) ==
    IF Selected(tasks, "empty") \/ Selected(tasks, "backlinks")
    THEN SUBSET (FailingNotes \cap ExistingNotes(fs))
    ELSE {{}}

DoMaintenance ==
    \E tasks \in TaskLists :
      \E bad \in BadChoices(tasks) :
        LET r == RunMaintenance(Disk, tasks, bad)
        IN  Commit(r.d, "report", <<>>, r.log,
                   [Request("maintenance", <<>>, <<>>, tasks) EXCEPT !.bad = bad],
                   <<>>)

\* case _: return "Unknown action."
DoUnknown ==
    Commit(Disk, "Unknown action.", <<>>, <<>>, Request("unknown", <<>>, <<>>, {}), <<>>)

----------------------------------------------------------------------------
(* Initial states: the tool is constructed over a vault as some earlier    *)
(* process left it.  The constructor touches no file.  The pair in .index  *)
(* is missing, or what a rebuild over the notes wrote, or one artifact of  *)
(* it: a rebuild stopped between lines 136 and 137 leaves the vector file  *)
(* alone, a removed faiss_index.bin leaves chunks.json alone.  A vault     *)
(* without a chunk starts without artifacts: whether a rebuild writes any  *)
(* for it is the embedding library's choice (er in BulkIndexVault).        *)

\* a vector of the index in ./vector_store
GlobalVec == [emb |-> TxOutside]

InitPair(f, vs, er) ==
    BulkIndexVault([fs |-> f, atts |-> {}, dir |-> TRUE, idx |-> Absent,
                    meta |-> Absent, exc |-> "none"], vs, er)

\* subs: what the note in the subdirectory can be at the start
InitVault(subs) ==
    /\ fs \in [AbsFiles -> {Absent} \cup {FileOf(t) : t \in Texts \cup {TxOutside}}]
    /\ fs[OutsideMd] = FileOf(TxOutside)
    /\ fs[IndexMd] = Absent
    /\ fs[SubIndexMd] \in subs
    /\ fs[NoteA] # FileOf(TxOutside) /\ fs[NoteB] # FileOf(TxOutside)
    /\ atts = Attachments
    /\ vstore \in {Absent} \cup
            {FileOf([i \in 1..n |-> GlobalVec]) : n \in 0..MaxGlobal}
    /\ \E hasIdx, hasMeta \in BOOLEAN :
        LET b == InitPair(fs, vstore, FALSE)
        IN  /\ indexFile = IF hasIdx /\ VaultChunks(fs) # <<>> THEN b.idx ELSE Absent
            /\ metaFile = IF hasMeta /\ VaultChunks(fs) # <<>> THEN b.meta ELSE Absent
    /\ indexDir \in BOOLEAN
    /\ (indexFile.exists \/ metaFile.exists) => indexDir
    /\ last = Request("init", <<>>, <<>>, {})
    /\ result = [kind |-> "text", val |-> "", data |-> <<>>, log |-> <<>>]
    /\ askPos = <<>>
    /\ steps = 0

\* an instance that handles no request.  eb: a rebuild of this instance
\* embedded an empty batch
Idle ==
    [pc |-> "off", op |-> "none", path |-> <<>>, text |-> <<>>, ret |-> "done",
     idx |-> <<>>, chunks |-> <<>>, bidx |-> <<>>, bchunks |-> <<>>,
     exc |-> "none", eb |-> FALSE]

Procs == {1, 2}

Init ==
    /\ InitVault({Absent})
    /\ procs = [p \in Procs |-> Idle]

Next ==
    \/ DoCreate
    \/ DoRead
    \/ DoUpdate
    \/ DoDelete
    \/ DoAsk
    \/ DoMaintenance
    \/ DoUnknown

Spec == Init /\ [][Next]_vars

\* Maintenance runs alone, over a vault that can hold a note in a
\* subdirectory
InitMaint ==
    /\ InitVault({Absent, FileOf(TxHi)})
    /\ procs = [p \in Procs |-> Idle]

NextMaint == DoMaintenance

SpecMaint == InitMaint /\ [][NextMaint]_vars

----------------------------------------------------------------------------
(* Two instances over one vault root (two VaultOpsTool objects, as         *)
(* multi_vault_crew.py builds them, given the same vault_path).  Each      *)
(* handles one create, update or delete; every access to a file is a step  *)
(* of its own and the steps of the two interleave.  A process can also     *)
(* stop for good between two steps.                                        *)

\* the operations that change the vault
Mutating == {"create", "update", "delete"}

\* the requests an instance is given
ConcRequests ==
    {[op |-> op, rel |-> rel, text |-> TxHi] : op \in Mutating, rel \in InsideRel}

Begin(req) ==
    [Idle EXCEPT !.pc = "start", !.op = req.op, !.path = Abs(req.rel).path,
                 !.text = req.text]

\* the handler returns (e: the exception it lets out, "none" for a text)
Finish(p, e) ==
    procs' = [procs EXCEPT ![p] =
                [Idle EXCEPT !.pc = "done", !.op = procs[p].op,
                             !.path = procs[p].path, !.text = procs[p].text,
                             !.eb = procs[p].eb, !.exc = e]]

Goto(p, pc) == procs' = [procs EXCEPT ![p].pc = pc]

Same == <<vstore, last, result, askPos, steps, atts>>

\* lines 78, 95, 111: path.exists()
PStart(p) ==
    /\ procs[p].pc = "start"
    /\ IF procs[p].op = "create"
       THEN IF fs[procs[p].path].exists THEN Finish(p, "none") ELSE Goto(p, "write")
       ELSE IF ~fs[procs[p].path].exists THEN Finish(p, "none")
       ELSE IF procs[p].op = "update" THEN Goto(p, "write")
       ELSE Goto(p, "unlink")
    /\ UNCHANGED <<fs, indexDir, indexFile, metaFile, Same>>

\* lines 80, 97: self._write(path, content)
PWrite(p) ==
    /\ procs[p].pc = "write"
    /\ fs' = [fs EXCEPT ![procs[p].path] = FileOf(procs[p].text)]
    /\ Goto(p, "ensure")
    /\ UNCHANGED <<indexDir, indexFile, metaFile, Same>>

\* line 113: path.unlink(), then _remove_from_index
PUnlink(p) ==
    /\ procs[p].pc = "unlink"
    /\ IF fs[procs[p].path].exists
       THEN /\ fs' = [fs EXCEPT ![procs[p].path] = Absent]
            /\ procs' = [procs EXCEPT ![p].pc = "rm_meta", ![p].ret = "done"]
       ELSE /\ Finish(p, "FileNotFoundError")
            /\ UNCHANGED fs
    /\ UNCHANGED <<indexDir, indexFile, metaFile, Same>>

\* lines 119-120: mkdir, and INDEX_FILE.exists()
PEnsure(p) ==
    /\ procs[p].pc = "ensure"
    /\ indexDir' = TRUE
    /\ IF indexFile.exists THEN Goto(p, "load")
       ELSE procs' = [procs EXCEPT ![p].pc = "bulk_read", ![p].ret = "load"]
    /\ UNCHANGED <<fs, indexFile, metaFile, Same>>

\* line 147: load_faiss(self.INDEX_FILE) and META_FILE.read_text()
PLoad(p) ==
    /\ procs[p].pc = "load"
    /\ LET ld == LoadFaiss("path", vstore)
       IN  IF ld.exc # "none" THEN Finish(p, ld.exc)
           ELSE IF ~metaFile.exists THEN Finish(p, "FileNotFoundError")
           ELSE procs' = [procs EXCEPT
                    ![p].idx = ld.index,
                    ![p].chunks = metaFile.data,
                    ![p].pc = IF procs[p].op = "update" THEN "rm_meta" ELSE "read",
                    ![p].ret = "read"]
    /\ UNCHANGED <<fs, indexDir, indexFile, metaFile, Same>>

\* lines 164-165: unlink META_FILE if it exists
PRmMeta(p) ==
    /\ procs[p].pc = "rm_meta"
    /\ metaFile' = Absent
    /\ Goto(p, "rm_idx")
    /\ UNCHANGED <<fs, indexDir, indexFile, Same>>

\* lines 166-167: unlink INDEX_FILE if it exists
PRmIdx(p) ==
    /\ procs[p].pc = "rm_idx"
    /\ indexFile' = Absent
    /\ Goto(p, "bulk_read")
    /\ UNCHANGED <<fs, indexDir, metaFile, Same>>

\* lines 125-135: the notes are read and embedded into a fresh index
PBulkRead(p) ==
    /\ procs[p].pc = "bulk_read"
    /\ \E er \in BOOLEAN :
        LET chunks == VaultChunks(fs)
            ld == LoadFaiss("dim", vstore)
        IN  IF chunks = <<>> /\ er
            THEN procs' = [procs EXCEPT ![p] =
                    [Idle EXCEPT !.pc = "done", !.op = procs[p].op,
                                 !.path = procs[p].path, !.text = procs[p].text,
                                 !.eb = TRUE, !.exc = "IndexError"]]
            ELSE procs' = [procs EXCEPT
                    ![p].bidx = ld.index \o EmbedTexts(Paras(chunks)),
                    ![p].bchunks = chunks,
                    ![p].eb = @ \/ chunks = <<>>,
                    ![p].pc = "bulk_save"]
    /\ UNCHANGED <<fs, indexDir, indexFile, metaFile, Same>>

\* line 136: save_faiss(index, self.INDEX_FILE)
PBulkSave(p) ==
    /\ procs[p].pc = "bulk_save"
    /\ IF ~indexDir
       THEN /\ Finish(p, "RuntimeError")
            /\ UNCHANGED indexFile
       ELSE /\ indexFile' = FileOf(procs[p].bidx)
            /\ Goto(p, "bulk_meta")
    /\ UNCHANGED <<fs, indexDir, metaFile, Same>>

\* line 137: META_FILE.write_text, and the return to the caller
PBulkMeta(p) ==
    /\ procs[p].pc = "bulk_meta"
    /\ metaFile' = FileOf(procs[p].bchunks)
    /\ IF procs[p].ret = "done" THEN Finish(p, "none")
       ELSE procs' = [procs EXCEPT ![p].pc = procs[p].ret, ![p].bidx = <<>>,
                                   ![p].bchunks = <<>>]
    /\ UNCHANGED <<fs, indexDir, indexFile, Same>>

\* lines 150-154: the file is read and added to the loaded index and list
PRead(p) ==
    /\ procs[p].pc = "read"
    /\ IF ~fs[procs[p].path].exists THEN Finish(p, "FileNotFoundError")
       ELSE LET txt == fs[procs[p].path].data
            IN  procs' = [procs EXCEPT
                    ![p].idx = @ \o EmbedTexts(<<txt>>),
                    ![p].chunks = Append(@, [file |-> procs[p].path, para |-> txt]),
                    ![p].pc = "save"]
    /\ UNCHANGED <<fs, indexDir, indexFile, metaFile, Same>>

\* line 155: save_faiss(index, self.INDEX_FILE)
PSave(p) ==
    /\ procs[p].pc = "save"
    /\ indexFile' = FileOf(procs[p].idx)
    /\ Goto(p, "meta")
    /\ UNCHANGED <<fs, indexDir, metaFile, Same>>

\* line 156: META_FILE.write_text, and the return
PMeta(p) ==
    /\ procs[p].pc = "meta"
    /\ metaFile' = FileOf(procs[p].chunks)
    /\ Finish(p, "none")
    /\ UNCHANGED <<fs, indexDir, indexFile, Same>>

\* the positions between two steps on the pair: inside a removal, a
\* rebuild or an incremental add
InsidePairUpdate == {"rm_idx", "bulk_read", "bulk_save", "bulk_meta", "save", "meta"}

\* the process stops for good inside an update of the pair
PCrash(p) ==
    /\ procs[p].pc \in InsidePairUpdate
    /\ procs' = [procs EXCEPT ![p] = [Idle EXCEPT !.pc = "crashed",
                        !.op = procs[p].op, !.path = procs[p].path,
                        !.text = procs[p].text, !.eb = procs[p].eb]]
    /\ UNCHANGED <<fs, indexDir, indexFile, metaFile, Same>>

\* the vault as a run of the tool left it: no pair, or the pair of a
\* rebuild; ./vector_store holds no index or an empty one
InitConc ==
    /\ InitVault({Absent})
    /\ indexFile.exists = metaFile.exists
    /\ vstore \in {Absent, FileOf(<<>>)}
    /\ procs \in [Procs -> {Begin(r) : r \in ConcRequests}]

NextConc ==
    \E p \in Procs :
        \/ PStart(p)
        \/ PWrite(p)
        \/ PUnlink(p)
        \/ PEnsure(p)
        \/ PLoad(p)
        \/ PRmMeta(p)
        \/ PRmIdx(p)
        \/ PBulkRead(p)
        \/ PBulkSave(p)
        \/ PBulkMeta(p)
        \/ PRead(p)
        \/ PSave(p)
        \/ PMeta(p)
        \/ PCrash(p)

SpecConc == InitConc /\ [][NextConc]_vars

----------------------------------------------------------------------------
(* Properties *)

Crud == {"create", "read", "update", "delete"}

\* the file a request path designates
Target(rel) == ResolveFrom(VAULT_PATH, rel)
Escapes(rel) == ~IsRelativeTo(Target(rel), VAULT_PATH)

\* both artifacts exist and hold equally many entries
Aligned ==
    (indexFile.exists /\ metaFile.exists) =>
        Len(indexFile.data) = Len(metaFile.data)

DiskUnchanged ==
    UNCHANGED <<fs, atts, indexDir, indexFile, metaFile>>

Returned(text) == result.kind = "text" /\ result.val = text

\* C1: a create, update or delete that starts with an aligned pair (or with
\* no pair) leaves chunks.json and faiss_index.bin with equally many
\* entries.
C1_AlignmentPreserved ==
    [][(last'.op \in Mutating /\ Aligned) => Aligned']_vars

\* C2: every position ask subscripts the chunk list with lies in
\* 0 .. len(chunks)-1: never the -1 a search pads with when the index holds
\* fewer than k vectors, never a position past the end.  Stated for a vault
\* that holds a chunk (C9 is the vault without one).
C2_AskPositionsInRange ==
    (last.op = "ask" /\ VaultChunks(fs) # <<>>) =>
        \A j \in 1..Len(askPos) :
            /\ metaFile.exists
            /\ 0 <= askPos[j]
            /\ askPos[j] < Len(metaFile.data)

\* C3: after a successful update, chunks.json is what a rebuild over the
\* files as they now are produces: no record of the previous content, none
\* on top of the rebuild.  Stated for a vault that holds a chunk after the
\* update.
C3_UpdateEqualsRebuild ==
    (last.op = "update" /\ Returned("Updated") /\ VaultChunks(fs) # <<>>) =>
        metaFile = FileOf(VaultChunks(fs))

\* C4: after a successful create, the records of chunks.json that name the
\* new note are its non-blank paragraphs, one record each, in order, and
\* every record persisted before the call is still there.  Stated for a
\* vault that holds a chunk after the create.
C4_CreateAddsChunksOnce ==
    [][(last'.op = "create" /\ Returned("Created")' /\ VaultChunks(fs') # <<>>) =>
        /\ metaFile'.exists
        /\ SelectSeq(metaFile'.data, LAMBDA r : r.file = Target(last'.rel))
             = ChunksOf(Target(last'.rel), last'.text)
        /\ metaFile.exists =>
             \A i \in 1..Len(metaFile.data) :
                \E j \in 1..Len(metaFile'.data) :
                    metaFile'.data[j] = metaFile.data[i]]_vars

\* C5: every record of chunks.json, when the pair is on disk, names a note
\* that exists in the vault.
C5_RecordsNameExistingNotes ==
    (indexFile.exists /\ metaFile.exists) =>
        \A i \in 1..Len(metaFile.data) : fs[metaFile.data[i].file].exists

\* C6: create on a path whose file exists returns "already exists" and
\* changes neither the file nor the two artifacts.
C6_CreateExistingChangesNothing ==
    [][(last'.op = "create" /\ ~Escapes(last'.rel) /\ fs[Target(last'.rel)].exists) =>
        /\ Returned("already exists")'
        /\ DiskUnchanged]_vars

\* a create that found its file present, handled after an earlier request
C6_Witness ==
    /\ last.op = "create"
    /\ Returned("already exists")
    /\ fs[Target(last.rel)].exists
    /\ steps = 2

\* C7: read, update and delete on a missing file inside the vault give a
\* not-found text, let no exception out of _run and change nothing.
C7_MissingFileGivesText ==
    [][(/\ last'.op \in {"read", "update", "delete"}
        /\ ~Escapes(last'.rel)
        /\ ~fs[Target(last'.rel)].exists) =>
        /\ result'.kind = "text"
        /\ result'.val \in {"not found", "does not exist"}
        /\ DiskUnchanged]_vars

C9_AskEmptyVaultRejected ==
    (last.op = "ask" /\ VaultChunks(fs) = <<>>) =>
        /\ result.val = "EmptyIndex"
        /\ askPos = <<>>

\* C10: when ask, create or update reaches the index with exactly one of
\* the two artifacts on disk (and the vault has a chunk to index), the
\* rebuild leaves both artifacts on disk.
C10_PartialPairRebuilt ==
    [][(/\ \/ last'.op = "ask"
           \/ last'.op = "create" /\ ~Escapes(last'.rel)
                /\ ~fs[Target(last'.rel)].exists
           \/ last'.op = "update" /\ ~Escapes(last'.rel)
                /\ fs[Target(last'.rel)].exists
        /\ indexFile.exists # metaFile.exists
        /\ VaultChunks(fs') # <<>>) =>
        /\ indexFile'.exists
        /\ metaFile'.exists]_vars

----------------------------------------------------------------------------
(* Properties of the retry and of the maintenance passes *)

NotFoundTexts == {"already exists", "not found", "does not exist"}

\* C12: when a create, update or delete let an exception out after its
\* path was accepted (on a vault that holds a chunk, the pair on disk), the
\* same request made again does not end in an already-exists / not-found
\* text while chunks.json is not what the notes now on disk give.
C12_FailedRequestRetryable ==
    [][(/\ last.op \in Mutating
        /\ ~Escapes(last.rel)
        /\ result.kind = "exc"
        /\ indexFile.exists /\ metaFile.exists
        /\ VaultChunks(fs) # <<>>
        /\ last'.again) =>
        ~(/\ result'.kind = "text"
          /\ result'.val \in NotFoundTexts
          /\ metaFile' # FileOf(VaultChunks(fs')))]_vars

\* the names of the passes a report holds a line of, in order
LogPasses(log) == [i \in 1..Len(log) |-> log[i].pass]

\* C13: a maintenance request (with no file refusing an unlink or a write)
\* returns a report that holds the lines of exactly the selected passes,
\* all five without a selection, in the order empty, dangling, orphans,
\* backlinks, index.
C13_ReportOfSelectedPasses ==
    (last.op = "maintenance" /\ last.bad = {}) =>
        /\ result.kind = "text"
        /\ LogPasses(result.log)
             = SelectSeq(Passes, LAMBDA name : Selected(last.tasks, name))

\* the attachment an embed reference ![](path) of a token designates
TokEmbeds(tok) ==
    IF tok = "![](img.png)" THEN {<<"vault", "img.png">>} ELSE {}

\* the note text holds an embed reference that designates att
References(txt, att) ==
    \E i \in 1..Len(txt) : \E j \in 1..Len(txt[i]) : att \in TokEmbeds(txt[i][j])

\* C14: a maintenance run that selects the orphans pass deletes no
\* attachment that a note of the vault references.
C14_ReferencedAttachmentKept ==
    [][(last'.op = "maintenance" /\ Selected(last'.tasks, "orphans")) =>
        \A att \in atts :
            (\E p \in VaultNotes : fs'[p].exists /\ References(fs'[p].data, att))
                => att \in atts']_vars

\* the orphans pass was asked for while a note references the attachment,
\* and the attachment is still there
C14_Witness ==
    /\ last.op = "maintenance"
    /\ last.tasks = {"orphans"}
    /\ \E p \in VaultNotes :
        fs[p].exists /\ References(fs[p].data, <<"vault", "img.png">>)
    /\ <<"vault", "img.png">> \in atts

\* the file name a note is linked by
LinkName(p) == p[Len(p)]

\* the other notes whose own text (generated section aside) links to p
Linkers(f, p) ==
    {q \in ExistingNotes(f) \ {p} :
        \E k \in 1..Len(TextLinks(StripBacklinks(f[q].data))) :
            TextLinks(StripBacklinks(f[q].data))[k] = LinkName(p)}

\* the lines of the generated section a text ends with (none without one)
SectionLines(txt) ==
    IF Len(txt) >= 2 /\ Len(txt[Len(txt) - 1]) >= 1
       /\ txt[Len(txt) - 1][Len(txt[Len(txt) - 1])] = "\n## Backlinks"
    THEN {txt[Len(txt)][j] : j \in 1..Len(txt[Len(txt)])}
    ELSE {}

HasSection(txt) ==
    \E i \in 1..Len(txt) : \E j \in 1..Len(txt[i]) : txt[i][j] = "\n## Backlinks"

\* C15: after a backlinks pass, a note that another note links to ends with
\* a backlinks section naming every linking note, and a note nobody links
\* to has no backlinks section.
C15_BacklinksSectionPerInbound ==
    (last.op = "maintenance" /\ last.tasks = {"backlinks"} /\ result.kind = "text") =>
        \A p \in ExistingNotes(fs) :
            IF Linkers(fs, p) # {}
            THEN \A q \in Linkers(fs, p) : StemLine(q) \in SectionLines(fs[p].data)
            ELSE ~HasSection(fs[p].data)

MissingRefs(f) ==
    {x \in ExistingNotes(f) \X (1..2) \X (1..3) \X (1..1) :
        /\ x[2] <= Len(f[x[1]].data)
        /\ x[3] <= Len(f[x[1]].data[x[2]])
        /\ x[4] <= Len(TokLinks(f[x[1]].data[x[2]][x[3]]))
        /\ ~f[Append(VAULT_PATH, TokLinks(f[x[1]].data[x[2]][x[3]])[x[4]])].exists}

\* C17: a maintenance run of the dangling pass alone reports the number of
\* wiki-link occurrences whose target file is missing and changes nothing
\* on disk.
C17_DanglingCountsMissingTargets ==
    [][(last'.op = "maintenance" /\ last'.tasks = {"dangling"}) =>
        /\ result'.kind = "text"
        /\ result'.log = <<[pass |-> "dangling", n |-> Cardinality(MissingRefs(fs))]>>
        /\ DiskUnchanged]_vars

\* a.md links to b, b.md is missing, and the pass reported one
C17_Witness ==
    /\ last.op = "maintenance"
    /\ last.tasks = {"dangling"}
    /\ fs[NoteA].exists /\ "- [[b]]\n" \in {fs[NoteA].data[1][j] : j \in 1..Len(fs[NoteA].data[1])}
    /\ ~fs[NoteB].exists
    /\ result.log = <<[pass |-> "dangling", n |-> 1]>>

\* C18: after a run that selects the index pass, Index.md holds one line
\* for every other note of the vault, a note in a subdirectory included,
\* and no more lines than notes, a before b.
C18_IndexListsEveryNote ==
    (last.op = "maintenance" /\ Selected(last.tasks, "index") /\ result.kind = "text") =>
        /\ fs[IndexMd].exists
        /\ Len(fs[IndexMd].data) = 2
        /\ fs[IndexMd].data[1] = <<"# Index">>
        /\ LET body == fs[IndexMd].data[2]
               others == ExistingNotes(fs) \ {IndexMd}
           IN  /\ Len(body) = Cardinality(others)
               /\ \A p \in others : \E i \in 1..Len(body) : body[i] = StemLine(p)
               /\ \A i, j \in 1..Len(body) :
                    (body[i] = "- [[a]]\n" /\ body[j] = "- [[b]]\n") => i < j

\* C19: a maintenance run during which a note refuses its unlink or its
\* rewrite (and that does not select the orphans pass) still returns a
\* report with the line of every selected pass.
C19_FileFailureDoesNotAbort ==
    (/\ last.op = "maintenance"
     /\ last.bad # {}
     /\ ~Selected(last.tasks, "orphans")) =>
        /\ result.kind = "text"
        /\ LogPasses(result.log)
             = SelectSeq(Passes, LAMBDA name : Selected(last.tasks, name))

\* C11: when a process has stopped inside an update of the pair (the other
\* instance not having begun, no rebuild having met a vault without a
\* chunk), a vector file left on disk has its metadata file beside it, with
\* as many records as it has vectors.
C11_CrashLeavesNoBrokenPair ==
    (\E p \in Procs :
        /\ procs[p].pc = "crashed"
        /\ ~procs[p].eb
        /\ \A q \in Procs \ {p} : procs[q].pc = "start") =>
        (indexFile.exists =>
            /\ metaFile.exists
            /\ Len(metaFile.data) = Len(indexFile.data))

\* C20: when both instances have finished their create, update or delete,
\* the two artifacts are both on disk or both gone and are the two halves
\* of one write: equally many entries, the vector at each position the
\* embedding of the record at that position.  Stated without
\* ./vector_store/faiss_index.bin, where one instance alone keeps the pair
\* aligned, and for runs in which no rebuild met a vault without a chunk.
C20_ConcurrentWritersKeepPair ==
    (/\ \A p \in Procs : procs[p].pc = "done" /\ ~procs[p].eb
     /\ ~vstore.exists) =>
        /\ indexFile.exists = metaFile.exists
        /\ indexFile.exists =>
            [i \in 1..Len(indexFile.data) |-> indexFile.data[i].emb]
                = Paras(metaFile.data)

====
